---- MODULE Spec2Model ----
(***************************************************************************)
(* Model of src/src/spoolman_importer.py (class SpoolmanImporter).          *)
(*                                                                         *)
(* Conventions.                                                            *)
(*  - A Python str is a sequence of one-character strings, so that `in`,   *)
(*    lower(), upper(), strip() and the f-strings are computed character   *)
(*    by character.                                                        *)
(*  - A Python dict is a function whose DOMAIN is the set of its keys; an  *)
(*    ordered dict that the code iterates is a sequence of <<key, value>>. *)
(*  - None is NoneNum for a number and the empty text for an optional text *)
(*    that the code only tests for truthiness.                             *)
(*  - Decimal fractions are kept as integers: density and diameter in      *)
(*    hundredths (1.24 is 124), price in whole units (float 20.0 is 20).   *)
(*  - A dict taken from a loaded table is an object [items, place]: place  *)
(*    names the record of the table it is, so that an item assignment to   *)
(*    it changes the table unless the object is a copy.                    *)
(***************************************************************************)
EXTENDS Integers, Sequences, FiniteSets, TLC

\* ------------------------------------------------------------------ bounds
MaxRecords == 2
MaxQuantity == 2
MaxFailures == 1
MaxRuns == 2
MaxWord == 5
MaxIndex == 10

\* -------------------------------------------------------------------- text
NoneNum == -1

UpperCase == <<"A","B","C","D","E","F","G","H","I","J","K","L","M","N","O","P","Q","R","S","T","U","V","W","X","Y","Z">>
LowerCase == <<"a","b","c","d","e","f","g","h","i","j","k","l","m","n","o","p","q","r","s","t","u","v","w","x","y","z">>
Digits == <<"0","1","2","3","4","5","6","7","8","9">>

ToLower == [c \in {UpperCase[k] : k \in 1..Len(UpperCase)} |->
              LowerCase[CHOOSE k \in 1..Len(UpperCase) : UpperCase[k] = c]]

ToUpper == [c \in {LowerCase[k] : k \in 1..Len(LowerCase)} |->
              UpperCase[CHOOSE k \in 1..Len(LowerCase) : LowerCase[k] = c]]

lower_char(c) == IF c \in DOMAIN ToLower THEN ToLower[c] ELSE c

upper_char(c) == IF c \in DOMAIN ToUpper THEN ToUpper[c] ELSE c

\* str.lower()
lower(s) == [k \in 1..Len(s) |-> lower_char(s[k])]

\* str.upper()
upper(s) == [k \in 1..Len(s) |-> upper_char(s[k])]

\* str.strip()
strip(s) ==
  LET inner == {k \in 1..Len(s) : s[k] # " "}
  IN IF inner = {} THEN <<>>
     ELSE LET first == CHOOSE k \in inner : \A j \in inner : k <= j
              last == CHOOSE k \in inner : \A j \in inner : j <= k
          IN SubSeq(s, first, last)

\* sub in s
Contains(s, sub) ==
  \E k \in 0..(Len(s) - Len(sub)) : \A j \in 1..Len(sub) : s[k + j] = sub[j]

\* str.replace(" ", "-")
replace_space(s) == [k \in 1..Len(s) |-> IF s[k] = " " THEN "-" ELSE s[k]]

\* str(int)
RECURSIVE str_int(_)
str_int(n) ==
  IF n < 10 THEN <<Digits[n + 1]>>
  ELSE str_int(n \div 10) \o <<Digits[(n % 10) + 1]>>

\* str(float) of a whole number: 20.0 prints as "20.0"
str_float(x) == str_int(x) \o <<".","0">>

\* Path(source_filename).name
path_name(p) ==
  LET slashes == {k \in 1..Len(p) : p[k] = "/"}
  IN IF slashes = {} THEN p
     ELSE SubSeq(p, (CHOOSE k \in slashes : \A j \in slashes : j <= k) + 1, Len(p))

\* " | ".join(parts)
RECURSIVE join(_)
join(parts) ==
  IF Len(parts) = 0 THEN <<>>
  ELSE IF Len(parts) = 1 THEN parts[1]
  ELSE parts[1] \o <<" ","|"," ">> \o join(Tail(parts))

\* -------------------------------------------------------------------- dict
get(d, k, default) == IF k \in DOMAIN d THEN d[k] ELSE default

\* dict.update(e)
update(d, e) ==
  [k \in (DOMAIN d) \cup (DOMAIN e) |-> IF k \in DOMAIN e THEN e[k] ELSE d[k]]

\* d[k] = v
put(d, k, v) == [j \in (DOMAIN d) \cup {k} |-> IF j = k THEN v ELSE d[j]]

\* truthiness of a number that may be None
truthy(x) == x # NoneNum /\ x # 0
\* ---------------------------------------------------------- reference data
\* resources/vendor-data.json and resources/color-data.json as they may be on
\* disk; the user may edit them while a prompt waits for an answer.
TvPLA == [spool_weight |-> 200, extruder_temp |-> 210, bed_temp |-> 60, density |-> 124]
XvPLA == [spool_weight |-> 180, extruder_temp |-> 205, bed_temp |-> 55]
DefPLA == [spool_weight |-> 250, extruder_temp |-> 220, bed_temp |-> 60, density |-> 124]
DefPETG == [spool_weight |-> 250, extruder_temp |-> 240, bed_temp |-> 80, density |-> 127]

MaterialDefaults == << <<<<"P","L","A">>, DefPLA>>, <<<<"P","E","T","G">>, DefPETG>> >>

VendorFileA ==
  [vendors |-> << <<<<"T","v">>, << <<<<"P","L","A">>, TvPLA>> >> >> >>,
   material_defaults |-> MaterialDefaults]

VendorFileB ==
  [vendors |-> << <<<<"T","v">>, << <<<<"P","L","A">>, TvPLA>> >> >>,
                  <<<<"X","v">>, << <<<<"P","L","A"," ","B","a","s","i","c">>, XvPLA>> >> >> >>,
   material_defaults |-> MaterialDefaults]

VendorFiles == {VendorFileA, VendorFileB}

ColorFileA == [colors |-> << <<<<"r","e","d">>, <<"#","F","F","0","0","0","0">>>>, <<<<"b","l","a","c","k">>, <<"#","0","0","0","0","0","0">>>> >>]
ColorFileB == [colors |-> << <<<<"r","e","d">>, <<"#","F","F","0","0","0","0">>>>, <<<<"b","l","a","c","k">>, <<"#","0","0","0","0","0","0">>>>, <<<<"z","z">>, <<"#","0","0","0","0","F","F">>>> >>]

ColorFiles == {ColorFileA, ColorFileB}

\* a code the user types at "Enter hex code: " that matches ^#[0-9a-fA-F]{6}$
ManualHex == <<"#","1","2","3","4","5","6">>

\* datetime.now().strftime('%Y-%m-%d')
Today == <<"2","0","2","6","-","1","1","-","0","6">>

\* keys of an ordered dict, in order
keys(od) == [k \in 1..Len(od) |-> od[k][1]]

\* od[key] for a key the ordered dict holds
lookup(od, key) == od[CHOOSE k \in 1..Len(od) : od[k][1] = key][2]

has_key(od, key) == \E k \in 1..Len(od) : od[k][1] = key

\* the first of the indices at which a loop's test succeeds (where it breaks),
\* 0 when there is none
first_index(hits) ==
  IF hits = {} THEN 0 ELSE CHOOSE k \in hits : \A j \in hits : k <= j

\* ------------------------------------------------- extract_base_material
\* seeded fault: ABS is looked for before PLA
extract_base_material_abs_first(material) ==
  LET material_upper == upper(material)
  IN IF Contains(material_upper, <<"A","B","S">>) THEN <<"A","B","S">>
     ELSE IF Contains(material_upper, <<"P","L","A">>) THEN <<"P","L","A">>
     ELSE IF Contains(material_upper, <<"P","E","T","G">>) THEN <<"P","E","T","G">>
     ELSE IF Contains(material_upper, <<"A","S","A">>) THEN <<"A","S","A">>
     ELSE IF Contains(material_upper, <<"T","P","U">>) THEN <<"T","P","U">>
     ELSE IF Contains(material_upper, <<"W","O","O","D">>) THEN <<"W","O","O","D">>
     ELSE IF Contains(material_upper, <<"S","I","L","K">>) THEN <<"S","I","L","K">>
     ELSE <<"P","L","A">>

\* lines 185-205
extract_base_material(material) ==
  LET material_upper == upper(material)
  IN IF Contains(material_upper, <<"P","L","A">>) THEN <<"P","L","A">>
     ELSE IF Contains(material_upper, <<"P","E","T","G">>) THEN <<"P","E","T","G">>
     ELSE IF Contains(material_upper, <<"A","B","S">>) THEN <<"A","B","S">>
     ELSE IF Contains(material_upper, <<"A","S","A">>) THEN <<"A","S","A">>
     ELSE IF Contains(material_upper, <<"T","P","U">>) THEN <<"T","P","U">>
     ELSE IF Contains(material_upper, <<"W","O","O","D">>) THEN <<"W","O","O","D">>
     ELSE IF Contains(material_upper, <<"S","I","L","K">>) THEN <<"S","I","L","K">>
     ELSE <<"P","L","A">>

\* --------------------------------------------- get_vendor_filament_data
\* A dict object: the items it holds, and the record of the loaded table it
\* is (an item assignment to it is seen through the table), if any.
NoPlace == [table |-> "none", at |-> <<>>]

None == [items |-> <<>>, place |-> NoPlace]

\* vendors[name][material] of the table, by position
vendor_record(vendors, at) ==
  [items |-> vendors[at[1]][2][at[2]][2], place |-> [table |-> "vendors", at |-> at]]

\* material_defaults[material] of the table, by position
default_record(material_defaults, n) ==
  [items |-> material_defaults[n][2],
   place |-> [table |-> "material_defaults", at |-> <<n>>]]

\* seeded fault: the record of the table itself is handed on
copy_same(o) == o

\* dict.copy() (lines 86, 91, 100, 106, 177): a new object with the same items
copy(o) == [items |-> o.items, place |-> NoPlace]

\* self.vendor_data after the item assignments (lines 119, 178) that left
\* the object o with the given items
written(vd, o, items) ==
  IF o.place.table = "vendors"
  THEN [vd EXCEPT !.vendors[o.place.at[1]][2][o.place.at[2]][2] = items]
  ELSE IF o.place.table = "material_defaults"
  THEN [vd EXCEPT !.material_defaults[o.place.at[1]][2] = items]
  ELSE vd

\* lines 73-92: the brand found case-insensitively, then the material by
\* case-insensitive equality, else by containment; the position <<vendor,
\* material>> of the record, <<>> when there is none
vendor_match_first(vendors, brand_normalized, material_normalized) ==
  LET b == first_index({k \in 1..Len(vendors) : lower(vendors[k][1]) = brand_normalized})
  IN IF b = 0 THEN <<>>
     ELSE LET vendor_materials == vendors[b][2]
              e == first_index({k \in 1..Len(vendor_materials) :
                                  lower(vendor_materials[k][1]) = lower(material_normalized)})
              p == first_index({k \in 1..Len(vendor_materials) :
                                  Contains(lower(vendor_materials[k][1]),
                                           lower(material_normalized))})
          IN IF e # 0 THEN <<b, e>>
             ELSE IF p # 0 THEN <<b, p>>
             ELSE <<>>

\* lines 96-109: every vendor from position b on whose lower-cased name
\* equals the brand is tried in order; the exact-key hit leaves the loop even
\* with empty data
RECURSIVE vendor_match_second(_, _, _, _)
vendor_match_second(vendors, b, brand_normalized, material_normalized) ==
  IF b > Len(vendors) THEN <<>>
  ELSE IF lower(vendors[b][1]) = lower(brand_normalized)
  THEN LET vendor_materials == vendors[b][2]
           e == first_index({k \in 1..Len(vendor_materials) :
                               vendor_materials[k][1] = material_normalized})
           p == first_index({k \in 1..Len(vendor_materials) :
                               Contains(upper(vendor_materials[k][1]), material_normalized)})
       IN IF e # 0
          THEN <<b, e>>
          ELSE IF p # 0 /\ DOMAIN vendor_materials[p][2] # {}
          THEN <<b, p>>
          ELSE vendor_match_second(vendors, b + 1, brand_normalized, material_normalized)
  ELSE vendor_match_second(vendors, b + 1, brand_normalized, material_normalized)

\* lines 63-109: the copy of the record found, None when there is none
vendor_found(vd, brand, material) ==
  LET vendors == get(vd, "vendors", <<>>)
      brand_normalized == lower(strip(brand))
      material_normalized == strip(upper(material))
      first == vendor_match_first(vendors, brand_normalized, material_normalized)
      second == vendor_match_second(vendors, 1, brand_normalized, material_normalized)
  IN IF first # <<>> /\ DOMAIN vendor_record(vendors, first).items # {}
     THEN copy(vendor_record(vendors, first))
     ELSE IF second # <<>> THEN copy(vendor_record(vendors, second))
     ELSE None

\* lines 63-109: the items of vendor_data; <<>> is None
vendor_specific(vd, brand, material) == vendor_found(vd, brand, material).items

\* seeded fault: the defaults overwrite the vendor record's values
enrich_defaults_win(vd, vendor_data, material) ==
  LET material_defaults == get(vd, "material_defaults", <<>>)
      base_material == extract_base_material(strip(upper(material)))
  IN IF has_key(material_defaults, base_material)
     THEN update(vendor_data, lookup(material_defaults, base_material))
     ELSE vendor_data

\* lines 113-120: defaults fill only the keys the vendor record lacks
enrich(vd, vendor_data, material) ==
  LET material_defaults == get(vd, "material_defaults", <<>>)
      base_material == extract_base_material(strip(upper(material)))
  IN IF has_key(material_defaults, base_material)
     THEN LET defaults == lookup(material_defaults, base_material)
          IN [k \in (DOMAIN vendor_data) \cup (DOMAIN defaults) |->
                IF k \in DOMAIN vendor_data THEN vendor_data[k] ELSE defaults[k]]
     ELSE vendor_data

\* lines 132-138
UltimateFallback(brand, material) ==
  [density |-> 124, spool_weight |-> 250, extruder_temp |-> 220, bed_temp |-> 60,
   description |-> <<"D","e","f","a","u","l","t"," ","v","a","l","u","e","s"," ","f","o","r"," ">> \o brand \o <<" ">> \o material]

\* seeded fault: the defaults table is not consulted
material_default_data_constant(vd, brand, material) == UltimateFallback(brand, material)

\* lines 127-138
material_default_data(vd, brand, material) ==
  LET material_defaults == get(vd, "material_defaults", <<>>)
      base_material == extract_base_material(strip(upper(material)))
  IN IF has_key(material_defaults, base_material)
     THEN lookup(material_defaults, base_material)
     ELSE UltimateFallback(brand, material)

\* The answers "Choose option [r/s/1-n]" accepts; any other answer prompts again.
AttrChoices == {"r", "s", "1", "2"}

is_digit(c) == \E k \in 1..Len(Digits) : Digits[k] = c

int_of(c) == (CHOOSE k \in 1..Len(Digits) : Digits[k] = c) - 1

\* The result of get_vendor_filament_data: stop is the None the stop option
\* returns, prompted tells whether input() was called, vendor_data is
\* self.vendor_data afterwards (reloaded by the r option); prompts counts the
\* prompts shown and reloads the calls of load_vendor_data.
RECURSIVE get_vendor_filament_data(_, _, _, _, _, _)

\* seeded fault: the retry after the reload is interactive, and the user stops
handle_missing_vendor_data_reprompt(vd, brand, material, material_defaults, choice, on_disk) ==
  IF choice = "r"
  THEN LET retry == get_vendor_filament_data(on_disk, brand, material, TRUE, "s", on_disk)
       IN [retry EXCEPT !.prompted = TRUE, !.reloaded = TRUE,
                       !.prompts = @ + 1, !.reloads = @ + 1]
  ELSE IF choice = "s"
  THEN [stop |-> TRUE, prompted |-> TRUE, reloaded |-> FALSE, prompts |-> 1, reloads |-> 0, data |-> <<>>, vendor_data |-> vd]
  ELSE LET selected_material == keys(material_defaults)[int_of(choice)]
       IN [stop |-> FALSE, prompted |-> TRUE, reloaded |-> FALSE, prompts |-> 1, reloads |-> 0,
           data |-> put(lookup(material_defaults, selected_material), "description",
                        <<"U","s","i","n","g"," ">> \o selected_material \o <<" ","d","e","f","a","u","l","t","s"," ","f","o","r"," ">>
                           \o brand \o <<" ">> \o material),
           vendor_data |-> vd]

\* lines 140-183; choice is the accepted answer, on_disk the file a reload reads
handle_missing_vendor_data(vd, brand, material, material_defaults, choice, on_disk) ==
  IF choice = "r"
  THEN LET retry == get_vendor_filament_data(on_disk, brand, material, FALSE, choice, on_disk)
       IN [retry EXCEPT !.prompted = TRUE, !.reloaded = TRUE,
                       !.prompts = @ + 1, !.reloads = @ + 1]
  ELSE IF choice = "s"
  THEN [stop |-> TRUE, prompted |-> TRUE, reloaded |-> FALSE, prompts |-> 1, reloads |-> 0, data |-> <<>>, vendor_data |-> vd]
  ELSE LET choice_num == int_of(choice)
           selected_material == keys(material_defaults)[choice_num]
           selected_data == copy(default_record(material_defaults, choice_num))
           described == put(selected_data.items, "description",
                            <<"U","s","i","n","g"," ">> \o selected_material \o <<" ","d","e","f","a","u","l","t","s"," ","f","o","r"," ">>
                               \o brand \o <<" ">> \o material)
       IN [stop |-> FALSE, prompted |-> TRUE, reloaded |-> FALSE, prompts |-> 1, reloads |-> 0,
           data |-> described,
           vendor_data |-> written(vd, selected_data, described)]

\* the answers handle_missing_vendor_data accepts for this table
valid_attr_choice(vd, choice) ==
  \/ choice \in {"r", "s"}
  \/ /\ is_digit(choice)
     /\ 1 <= int_of(choice)
     /\ int_of(choice) <= Len(get(vd, "material_defaults", <<>>))

\* lines 61-138
get_vendor_filament_data(vd, brand, material, interactive, choice, on_disk) ==
  LET vendor_data == vendor_found(vd, brand, material)
      enriched == enrich(vd, vendor_data.items, material)
  IN IF DOMAIN vendor_data.items # {}
     THEN [stop |-> FALSE, prompted |-> FALSE, reloaded |-> FALSE, prompts |-> 0, reloads |-> 0,
           data |-> enriched, vendor_data |-> written(vd, vendor_data, enriched)]
     ELSE IF interactive
     THEN handle_missing_vendor_data(vd, brand, material,
                                     get(vd, "material_defaults", <<>>), choice, on_disk)
     ELSE [stop |-> FALSE, prompted |-> FALSE, reloaded |-> FALSE, prompts |-> 0, reloads |-> 0,
           data |-> material_default_data(vd, brand, material), vendor_data |-> vd]

\* ------------------------------------------------- get_material_density
FallbackDensities ==
  << <<<<"P","L","A">>, 124>>, <<<<"A","B","S">>, 104>>, <<<<"P","E","T","G">>, 127>>, <<<<"T","P","U">>, 120>>,
     <<<<"W","O","O","D">>, 128>>, <<<<"S","I","L","K">>, 124>>, <<<<"A","S","A">>, 107>> >>

get_material_density(vd, material) ==
  LET material_defaults == get(vd, "material_defaults", <<>>)
      base_material == extract_base_material(upper(material))
  IN IF has_key(material_defaults, base_material)
     THEN get(lookup(material_defaults, base_material), "density", 124)
     ELSE IF has_key(FallbackDensities, base_material)
     THEN lookup(FallbackDensities, base_material)
     ELSE 124

\* --------------------------------------------------------- get_color_hex
\* sorted(keys, key=len, reverse=True): a stable sort, longest first
RECURSIVE insert_by_len(_, _)
insert_by_len(sorted, key) ==
  IF sorted = <<>> THEN <<key>>
  ELSE IF Len(Head(sorted)) >= Len(key)
  THEN <<Head(sorted)>> \o insert_by_len(Tail(sorted), key)
  ELSE <<key>> \o sorted

\* seeded fault: the keys are scanned in the order of the table
sorted_by_len_unsorted(ks) == ks

RECURSIVE sorted_by_len(_)
sorted_by_len(ks) ==
  IF ks = <<>> THEN <<>>
  ELSE insert_by_len(sorted_by_len(SubSeq(ks, 1, Len(ks) - 1)), ks[Len(ks)])

\* The answers "Choose option [r/m/o/s]" accepts; any other answer prompts again.
ColorChoices == {"r", "m", "o", "s"}

\* The result of get_color_hex: hex is the code (<<>> is None), exit is
\* sys.exit(1), prompted tells whether input() was called, color_data is
\* self.color_data afterwards; prompts counts the prompts shown and reloads
\* the calls of load_color_data.
RECURSIVE get_color_hex(_, _, _, _, _)

\* seeded fault: the stop option returns None as the omit option does
handle_missing_color_no_exit(cd, color_name, choice, on_disk) ==
  IF choice = "r"
  THEN LET retry == get_color_hex(on_disk, color_name, FALSE, choice, on_disk)
       IN [retry EXCEPT !.prompted = TRUE, !.reloaded = TRUE,
                       !.prompts = @ + 1, !.reloads = @ + 1]
  ELSE [exit |-> FALSE, prompted |-> TRUE, reloaded |-> FALSE, prompts |-> 1, reloads |-> 0,
        hex |-> IF choice = "m" THEN ManualHex ELSE <<>>, color_data |-> cd]

\* lines 468-501
handle_missing_color(cd, color_name, choice, on_disk) ==
  IF choice = "r"
  THEN LET retry == get_color_hex(on_disk, color_name, FALSE, choice, on_disk)
       IN [retry EXCEPT !.prompted = TRUE, !.reloaded = TRUE,
                       !.prompts = @ + 1, !.reloads = @ + 1]
  ELSE IF choice = "m"
  THEN [exit |-> FALSE, prompted |-> TRUE, reloaded |-> FALSE, prompts |-> 1, reloads |-> 0, hex |-> ManualHex, color_data |-> cd]
  ELSE IF choice = "o"
  THEN [exit |-> FALSE, prompted |-> TRUE, reloaded |-> FALSE, prompts |-> 1, reloads |-> 0, hex |-> <<>>, color_data |-> cd]
  ELSE [exit |-> TRUE, prompted |-> TRUE, reloaded |-> FALSE, prompts |-> 1, reloads |-> 0, hex |-> <<>>, color_data |-> cd]

\* lines 442-466
get_color_hex(cd, color_name, interactive, choice, on_disk) ==
  LET colors == get(cd, "colors", <<>>)
      normalized_color_name == replace_space(lower(color_name))
      by_len == sorted_by_len(keys(colors))
      hit == {k \in 1..Len(by_len) : Contains(normalized_color_name, by_len[k])}
      found(hex) == [exit |-> FALSE, prompted |-> FALSE, reloaded |-> FALSE, prompts |-> 0, reloads |-> 0,
                     hex |-> hex, color_data |-> cd]
  IN IF color_name = <<>> THEN found(<<>>)
     ELSE IF has_key(colors, normalized_color_name)
     THEN found(lookup(colors, normalized_color_name))
     ELSE IF hit # {}
     THEN found(lookup(colors, by_len[CHOOSE k \in hit : \A j \in hit : k <= j]))
     ELSE IF interactive THEN handle_missing_color(cd, color_name, choice, on_disk)
     ELSE found(<<>>)

\* seeded fault: the price is left out of the item key
generate_import_id_unpriced(source_filename, filament_data, index) ==
  LET item_key == filament_data.brand \o <<"-">> \o filament_data.material \o <<"-">>
                  \o filament_data.color
  IN <<"i","m","p","o","r","t","e","d","_","f","r","o","m",":">> \o path_name(source_filename)
     \o <<"|","i","t","e","m",":">> \o item_key \o <<"|","i","n","d","e","x",":">> \o str_int(index)

\* --------------------------------------------------- _generate_import_id
\* lines 326-329
generate_import_id(source_filename, filament_data, index) ==
  LET item_key == filament_data.brand \o <<"-">> \o filament_data.material \o <<"-">>
                  \o filament_data.color \o <<"-">> \o str_float(filament_data.price)
  IN <<"i","m","p","o","r","t","e","d","_","f","r","o","m",":">> \o path_name(source_filename)
     \o <<"|","i","t","e","m",":">> \o item_key \o <<"|","i","n","d","e","x",":">> \o str_int(index)

\* --------------------------------------------------------- build_comment
\* lines 503-516; import_id <<>> is None; the degree sign is written "*"
build_comment(filament_data, import_id) ==
  LET dated == << <<"I","m","p","o","r","t","e","d"," ","o","n"," ">> \o Today >>
      temps == IF truthy(get(filament_data, "extruder_temp", NoneNum))
                  /\ truthy(get(filament_data, "bed_temp", NoneNum))
               THEN << <<"T","e","m","p","s",":"," ">> \o str_int(filament_data.extruder_temp) \o <<"*","C","/">>
                       \o str_int(filament_data.bed_temp) \o <<"*","C">> >>
               ELSE <<>>
      described == IF get(filament_data, "vendor_description", <<>>) # <<>>
                   THEN << filament_data.vendor_description >>
                   ELSE <<>>
      marked == IF import_id # <<>>
                THEN << <<"I","m","p","o","r","t","I","D",":"," ","[">> \o import_id \o <<"]">> >>
                ELSE <<>>
  IN join(dated \o temps \o described \o marked)

\* ------------------------------------------------ find_existing_filament
filament_name_of(filament_data) == filament_data.material \o <<" ">> \o filament_data.color

\* seeded fault: the name is compared as written, not lower-cased
find_existing_filament_cased(filament_data, a_vendor_id, existing) ==
  LET filament_name == filament_name_of(filament_data)
      matches == {k \in 1..Len(existing) :
                    /\ existing[k].vendor.id = a_vendor_id
                    /\ existing[k].name = filament_name}
  IN IF matches = {} THEN <<>>
     ELSE existing[CHOOSE k \in matches : \A j \in matches : k <= j]

\* seeded fault: the entry's own id is compared with the vendor id
find_existing_filament_by_id(filament_data, a_vendor_id, existing) ==
  LET filament_name == filament_name_of(filament_data)
      matches == {k \in 1..Len(existing) :
                    /\ existing[k].id = a_vendor_id
                    /\ lower(existing[k].name) = lower(filament_name)}
  IN IF matches = {} THEN <<>>
     ELSE existing[CHOOSE k \in matches : \A j \in matches : k <= j]

\* lines 307-314: the first entry of the list that matches; <<>> is None
find_existing_filament(filament_data, a_vendor_id, existing) ==
  LET filament_name == filament_name_of(filament_data)
      matches == {k \in 1..Len(existing) :
                    /\ existing[k].vendor.id = a_vendor_id
                    /\ lower(existing[k].name) = lower(filament_name)}
  IN IF matches = {} THEN <<>>
     ELSE existing[CHOOSE k \in matches : \A j \in matches : k <= j]

\* ---------------------------------------------- load_filaments_from_json
\* what float() and int() raise on
BadNum == -2

Unknown == <<"U","n","k","n","o","w","n">>

\* lines 561-570: ok is FALSE when a conversion raises
validated_filament(filament) ==
  LET diameter == get(filament, "diameter", 175)
      weight == get(filament, "weight", 1000)
      price == get(filament, "price", 0)
      quantity == get(filament, "quantity", 1)
      spool_weight == get(filament, "spool_weight", NoneNum)
  IN [ok |-> /\ diameter # BadNum
             /\ weight # BadNum
             /\ price # BadNum
             /\ quantity # BadNum
             /\ (truthy(spool_weight) => spool_weight # BadNum),
      val |-> [brand |-> get(filament, "brand", Unknown),
               material |-> get(filament, "material", <<"P","L","A">>),
               color |-> get(filament, "color", Unknown),
               diameter |-> diameter,
               weight |-> weight,
               price |-> price,
               quantity |-> quantity,
               spool_weight |-> IF truthy(spool_weight) THEN spool_weight ELSE NoneNum]]

\* lines 554-571: the loop; a conversion that raises leaves it
RECURSIVE validate_all(_, _)
validate_all(items, validated_filaments) ==
  IF items = <<>> THEN [ok |-> TRUE, val |-> validated_filaments]
  ELSE IF ~Head(items).is_dict THEN validate_all(Tail(items), validated_filaments)
  ELSE LET v == validated_filament(Head(items).d)
       IN IF v.ok THEN validate_all(Tail(items), Append(validated_filaments, v.val))
          ELSE [ok |-> FALSE, val |-> <<>>]

\* lines 538-583: data is the parsed file
load_filaments_from_json(data) ==
  IF data.kind \in {"list", "dict_with_filaments"}
  THEN LET r == validate_all(data.filaments, <<>>)
       IN IF r.ok THEN r.val ELSE <<>>
  ELSE <<>>

\* ------------------------------------------------------------------ state
VARIABLES
  cat_vendors,        \* remote catalog: GET/POST /api/v1/vendor
  cat_filaments,      \* remote catalog: GET/POST /api/v1/filament
  cat_spools,         \* remote catalog: GET/POST /api/v1/spool
  vendor_file,        \* resources/vendor-data.json on disk
  color_file,         \* resources/color-data.json on disk
  json_file,          \* the parsed content of the file at json_path
  args,               \* process_receipt's json_path, vendor_name, dry_run; of a
                      \* single call, the method's name and its arguments
  user_vendor,        \* what the user types at "Enter vendor for ..."
  vendor_data,        \* self.vendor_data
  color_data,         \* self.color_data
  pc,                 \* position in process_receipt / import_filament; of a
                      \* single call, "call" before and "returned" after it
  existing_filaments, \* process_receipt's list, shared with import_filament
  filaments,          \* process_receipt's list of records
  idx,                \* position of `for filament in filaments`, from 1
  vendor_to_use,      \* process_receipt's local
  vendor_id,          \* process_receipt's local
  filament_id,        \* import_filament's local
  existing_spools,    \* import_filament's local
  i,                  \* import_filament's loop index
  success_count,      \* process_receipt's local
  result,             \* "running", "True", "False" (returned) or "exit" (sys.exit(1));
                      \* of a single call, the value it returned
  run,                \* number of the current invocation, from 1
  faults_left,        \* how many more HTTP calls may fail
  log,                \* this invocation's POSTs, failed GETs and input() calls
  prev_clean,         \* the previous invocation returned, with no failed call and no stop
  prev_partial        \* the previous invocation returned, with instance writes its only failed calls

catalog == <<cat_vendors, cat_filaments, cat_spools>>
files == <<vendor_file, color_file, json_file>>
invocation == <<args, user_vendor>>
importer == <<vendor_data, color_data>>
locals == <<existing_filaments, filaments, idx, vendor_to_use, vendor_id,
            filament_id, existing_spools, i, success_count>>
vars == <<catalog, files, invocation, importer, locals, pc, result, run, faults_left,
          log, prev_clean, prev_partial>>

\* ----------------------------------------------------------------- inputs
JsonPath == <<"i","n","/","d",".","j","s","o","n">>

ItemA ==
  [is_dict |-> TRUE,
   d |-> [brand |-> <<"T","v">>, material |-> <<"P","L","A">>, color |-> <<"R","e","d">>,
          quantity |-> MaxQuantity, weight |-> 1000, diameter |-> 175, price |-> 0]]

ItemB ==
  [is_dict |-> TRUE,
   d |-> [brand |-> <<"X","v">>, material |-> <<"p","l","a">>, color |-> <<"Z","z">>, price |-> 20]]

ItemC == [is_dict |-> FALSE, d |-> <<>>]

ItemD ==
  [is_dict |-> TRUE,
   d |-> [brand |-> <<"T","v">>, material |-> <<"P","L","A">>, color |-> <<"R","e","d">>, price |-> BadNum]]

ItemE ==
  [is_dict |-> TRUE,
   d |-> [brand |-> <<>>, material |-> <<"p","l","a">>, color |-> <<"r","e","d">>, spool_weight |-> 300]]

\* an object with no "brand" key
ItemF ==
  [is_dict |-> TRUE,
   d |-> [material |-> <<"P","L","A">>, color |-> <<"R","e","d">>]]

RawItems == {ItemA, ItemB, ItemC, ItemD, ItemE, ItemF}

JsonFiles ==
  {[kind |-> "list", filaments |-> f] :
      f \in UNION {[1..n -> RawItems] : n \in 1..MaxRecords}}
  \cup {[kind |-> "other", filaments |-> <<>>]}

EmptyCatalog == [vendors |-> <<>>, filaments |-> <<>>, spools |-> <<>>]

\* the catalog of tests/test_spoolman_importer.py, lines 85-90
SeededCatalog ==
  [vendors |-> << [id |-> 1, name |-> <<"T","v">>] >>,
   filaments |-> << [id |-> 101, name |-> <<"P","L","A"," ","R","e","d">>, vendor |-> [id |-> 1]] >>,
   spools |-> << [id |-> 201, filament_id |-> 101,
                  comment |-> <<"I","m","p","o","r","t","I","D",":"," ","[","i","m","p","o","r","t","e","d","_","f","r","o","m",":","d",".","j","s","o","n","|","i","t","e","m",":","T","v","-","P","L","A","-","R","e","d","-","0",".","0","|","i","n","d","e","x",":","0","]">>],
                 [id |-> 202, filament_id |-> 101,
                  comment |-> <<"I","m","p","o","r","t","I","D",":"," ","[","i","m","p","o","r","t","e","d","_","f","r","o","m",":","d",".","j","s","o","n","|","i","t","e","m",":","-","p","l","a","-","r","e","d","-","0",".","0","|","i","n","d","e","x",":","0","]">>] >>]

InitialCatalogs == {EmptyCatalog, SeededCatalog}

Start ==
  /\ \E c \in InitialCatalogs :
       /\ cat_vendors = c.vendors
       /\ cat_filaments = c.filaments
       /\ cat_spools = c.spools
  /\ vendor_file = VendorFileA
  /\ color_file = ColorFileA
  /\ json_file \in JsonFiles
  /\ args \in [json_path : {JsonPath}, vendor_name : {<<>>, <<"t","v">>}, dry_run : BOOLEAN]
  /\ user_vendor = <<"T","V">>
  /\ vendor_data = vendor_file
  /\ color_data = color_file
  /\ pc = "start"
  /\ existing_filaments = <<>>
  /\ filaments = <<>>
  /\ idx = 1
  /\ vendor_to_use = <<>>
  /\ vendor_id = NoneNum
  /\ filament_id = NoneNum
  /\ existing_spools = <<>>
  /\ i = 0
  /\ success_count = 0
  /\ result = "running"
  /\ run = 1
  /\ log = <<>>
  /\ prev_clean = FALSE
  /\ prev_partial = FALSE

\* one invocation of main, up to MaxFailures HTTP calls failing
Init ==
  /\ faults_left = MaxFailures
  /\ Start

\* ------------------------------------------------------------ HTTP, input
\* a call may fail while the failure budget lasts
Outcomes == IF faults_left > 0 THEN BOOLEAN ELSE {TRUE}

failed(ok) == IF ok THEN 0 ELSE 1

Event(op, index, ok, answer) ==
  [op |-> op, rec |-> idx, index |-> index, ok |-> ok, answer |-> answer]

\* a POST is logged, a GET only when it fails
Posted(op, index, ok) == << Event(op, index, ok, "") >>
Got(op, ok) == IF ok THEN <<>> ELSE << Event(op, NoneNum, FALSE, "") >>
Asked(op, answer) == << Event(op, NoneNum, TRUE, answer) >>
\* what import_filament returned for the record
Returned(value) == << Event("return", NoneNum, value, "") >>

\* the outcomes of a call made after n calls of the same step have failed
OutcomesAfter(n) == IF faults_left - n > 0 THEN BOOLEAN ELSE {TRUE}

\* `continue`, or import_filament has returned: on to the next record
next_record ==
  /\ idx' = idx + 1
  /\ pc' = "record"

\* ------------------------------------------------------- process_receipt
\* seeded fault: the dry-run return is missing
early_return_wet(loaded, dry_run) ==
  IF loaded = <<>> THEN "False" ELSE "running"

\* lines 608-619: what process_receipt returns before the loop, "running" when
\* it goes on to the loop
early_return(loaded, dry_run) ==
  IF loaded = <<>> THEN "False"
  ELSE IF dry_run THEN "True"
  ELSE "running"

\* seeded fault: the comparison admits zero
receipt_result_any(count) == IF count >= 0 THEN "True" ELSE "False"

\* line 646
receipt_result(count) == IF count > 0 THEN "True" ELSE "False"

\* lines 588-622, called with json_path
process_receipt_start ==
  /\ pc = "start"
  /\ \E got \in Outcomes :
       /\ existing_filaments' = (IF got THEN cat_filaments ELSE <<>>)
       /\ faults_left' = faults_left - failed(got)
       /\ log' = log \o Got("get_filaments", got)
  /\ filaments' = load_filaments_from_json(json_file)
  /\ result' = early_return(filaments', args.dry_run)
  /\ pc' = (IF result' = "running" THEN "record" ELSE "done")
  /\ idx' = 1
  /\ success_count' = 0
  /\ UNCHANGED <<catalog, files, invocation, importer, vendor_to_use, vendor_id,
                 filament_id, existing_spools, i, run, prev_clean, prev_partial>>

\* lines 623-635: vendor_to_use, get_vendor_filament_data, filament.update
resolve_record ==
  /\ pc = "record"
  /\ idx <= Len(filaments)
  /\ LET filament == filaments[idx]
         named == IF filament.brand # <<>> THEN filament.brand ELSE args.vendor_name
         vendor == IF named # <<>> THEN named ELSE user_vendor
         asked_vendor == IF named # <<>> THEN <<>> ELSE Asked("input_vendor", "")
     IN \E choice \in AttrChoices, on_disk \in VendorFiles :
          LET r == get_vendor_filament_data(vendor_data, vendor, filament.material,
                                            TRUE, choice, on_disk)
              asked_attr == IF r.prompted THEN Asked("input_attr", choice) ELSE <<>>
              updated == update(filament, r.data)
              enriched == IF updated.spool_weight = NoneNum
                          THEN put(updated, "spool_weight",
                                   get(r.data, "spool_weight", NoneNum))
                          ELSE updated
          IN /\ valid_attr_choice(vendor_data, choice)
             /\ (r.reloaded \/ on_disk = vendor_file)
             /\ vendor_to_use' = vendor
             /\ vendor_data' = r.vendor_data
             /\ vendor_file' = (IF r.reloaded THEN on_disk ELSE vendor_file)
             /\ log' = log \o asked_vendor \o asked_attr
             /\ IF r.stop
                THEN next_record /\ filaments' = filaments
                ELSE /\ filaments' = [filaments EXCEPT ![idx] = enriched]
                     /\ pc' = "vendor"
                     /\ idx' = idx
  /\ UNCHANGED <<catalog, color_file, json_file, invocation, color_data,
                 existing_filaments, vendor_id, filament_id, existing_spools, i,
                 success_count, result, run, faults_left, prev_clean, prev_partial>>

\* lines 430-437: the id of the first vendor of that name, NoneNum when none
vendor_by_name(vendors, name) ==
  LET hit == {k \in 1..Len(vendors) : lower(vendors[k].name) = lower(name)}
  IN IF hit = {} THEN NoneNum
     ELSE vendors[CHOOSE k \in hit : \A j \in hit : k <= j].id

\* seeded fault: an id is returned although the request failed
create_vendor_anyway(posted, vendors) == Len(vendors) + 1

\* lines 419-428: the id POST /api/v1/vendor answers, None when it fails
create_vendor(posted, vendors) == IF posted THEN Len(vendors) + 1 ELSE NoneNum

\* lines 637-640 with get_or_create_vendor (430-440)
get_or_create_vendor ==
  /\ pc = "vendor"
  /\ \E got \in Outcomes :
       LET vendors == IF got THEN cat_vendors ELSE <<>>
           known == vendor_by_name(vendors, vendor_to_use)
       IN IF known # NoneNum
          THEN /\ vendor_id' = known
               /\ cat_vendors' = cat_vendors
               /\ faults_left' = faults_left - failed(got)
               /\ log' = log \o Got("get_vendors", got)
               /\ IF truthy(known) THEN pc' = "entry" /\ idx' = idx ELSE next_record
          ELSE \E posted \in OutcomesAfter(failed(got)) :
                 /\ faults_left' = faults_left - failed(got) - failed(posted)
                 /\ log' = log \o Got("get_vendors", got) \o Posted("post_vendor", NoneNum, posted)
                 /\ cat_vendors' = (IF posted
                                     THEN Append(cat_vendors,
                                                 [id |-> Len(cat_vendors) + 1,
                                                  name |-> vendor_to_use])
                                     ELSE cat_vendors)
                 /\ vendor_id' = create_vendor(posted, cat_vendors)
                 /\ IF truthy(vendor_id') THEN pc' = "entry" /\ idx' = idx
                    ELSE next_record
  /\ UNCHANGED <<cat_filaments, cat_spools, files, invocation, importer,
                 existing_filaments, filaments, vendor_to_use, filament_id,
                 existing_spools, i, success_count, result, run, prev_clean, prev_partial>>

\* ------------------------------------------------------- import_filament
\* lines 354-365: the request body; a None color_hex is left out
spoolman_data(filament_data, a_vendor_id, color_hex, vd) ==
  LET density == get(filament_data, "density", NoneNum)
      body == [vendor_id |-> a_vendor_id,
               name |-> filament_name_of(filament_data),
               material |-> filament_data.material,
               diameter |-> filament_data.diameter,
               weight |-> filament_data.weight,
               price |-> filament_data.price,
               density |-> IF truthy(density) THEN density
                           ELSE get_material_density(vd, filament_data.material),
               comment |-> build_comment(filament_data, <<>>)]
  IN IF color_hex # <<>> THEN put(body, "color_hex", color_hex) ELSE body

\* what POST /api/v1/filament stores and answers
stored_filament(body, id) ==
  [k \in ((DOMAIN body) \ {"vendor_id"}) \cup {"id", "vendor"} |->
     IF k = "id" THEN id
     ELSE IF k = "vendor" THEN [id |-> body.vendor_id]
     ELSE body[k]]

\* seeded fault: the created entry is not kept in the list
remember_nothing(existing, new_filament) == existing

\* line 370: the created entry joins the list the next records are matched
\* against
remember(existing, new_filament) == Append(existing, new_filament)

\* lines 346-382: the entry is found or created
import_filament_entry ==
  /\ pc = "entry"
  /\ LET filament_data == filaments[idx]
         existing_filament == find_existing_filament(filament_data, vendor_id,
                                                     existing_filaments)
     IN IF DOMAIN existing_filament # {}
        THEN /\ filament_id' = existing_filament.id
             /\ pc' = "spools"
             /\ idx' = idx
             /\ UNCHANGED <<cat_filaments, existing_filaments, color_data, color_file,
                            result, faults_left, log>>
        ELSE \E choice \in ColorChoices, on_disk \in ColorFiles, posted \in Outcomes :
               LET c == get_color_hex(color_data, filament_data.color, ~args.dry_run,
                                      choice, on_disk)
                   asked == IF c.prompted THEN Asked("input_color", choice) ELSE <<>>
                   body == spoolman_data(filament_data, vendor_id, c.hex, vendor_data)
                   new_filament == stored_filament(body, 100 + Len(cat_filaments) + 1)
               IN /\ (c.reloaded \/ on_disk = color_file)
                  /\ color_data' = c.color_data
                  /\ color_file' = (IF c.reloaded THEN on_disk ELSE color_file)
                  /\ IF c.exit
                     THEN /\ pc' = "exit"
                          /\ result' = "exit"
                          /\ log' = log \o asked
                          /\ idx' = idx
                          /\ UNCHANGED <<cat_filaments, existing_filaments, filament_id,
                                         faults_left>>
                     ELSE /\ result' = result
                          /\ faults_left' = faults_left - failed(posted)
                          /\ log' = log \o asked \o Posted("post_filament", NoneNum, posted)
                                       \o (IF posted THEN <<>> ELSE Returned(FALSE))
                          /\ IF posted
                             THEN /\ cat_filaments' = Append(cat_filaments, new_filament)
                                  /\ filament_id' = new_filament.id
                                  /\ existing_filaments' =
                                       remember(existing_filaments, new_filament)
                                  /\ pc' = "spools"
                                  /\ idx' = idx
                             ELSE /\ next_record
                                  /\ UNCHANGED <<cat_filaments, existing_filaments,
                                                 filament_id>>
  /\ UNCHANGED <<cat_vendors, cat_spools, vendor_file, json_file, invocation,
                 vendor_data, filaments, vendor_to_use, vendor_id, existing_spools, i,
                 success_count, run, prev_clean, prev_partial>>

\* seeded fault: the instances of the other entries are answered
spools_of_others(id) == SelectSeq(cat_spools, LAMBDA s : s.filament_id # id)

\* what GET /api/v1/spool?filament_id= answers
spools_of(id) == SelectSeq(cat_spools, LAMBDA s : s.filament_id = id)

\* lines 385-386 with get_spools_for_filament (331-339)
import_filament_get_spools ==
  /\ pc = "spools"
  /\ \E got \in Outcomes :
       /\ existing_spools' = (IF got THEN spools_of(filament_id) ELSE <<>>)
       /\ faults_left' = faults_left - failed(got)
       /\ log' = log \o Got("get_spools", got)
  /\ i' = 0
  /\ pc' = "spool"
  /\ UNCHANGED <<catalog, files, invocation, importer, existing_filaments, filaments,
                 idx, vendor_to_use, vendor_id, filament_id, success_count, result,
                 run, prev_clean, prev_partial>>

\* seeded fault: the comment is compared for equality with the marker
is_duplicate_exact(import_id, spools) ==
  \E k \in 1..Len(spools) : get(spools[k], "comment", <<>>) = import_id

\* line 389
is_duplicate(import_id, spools) ==
  \E k \in 1..Len(spools) : Contains(get(spools[k], "comment", <<>>), import_id)

\* seeded fault: the comment is built without the marker
spool_data_unmarked(filament_data, a_filament_id, import_id) ==
  LET body == [filament_id |-> a_filament_id,
               remaining_weight |-> filament_data.weight,
               comment |-> build_comment(filament_data, <<>>)]
  IN IF truthy(get(filament_data, "spool_weight", NoneNum))
     THEN put(body, "spool_weight", filament_data.spool_weight)
     ELSE body

\* lines 395-401: the request body
spool_data(filament_data, a_filament_id, import_id) ==
  LET body == [filament_id |-> a_filament_id,
               remaining_weight |-> filament_data.weight,
               comment |-> build_comment(filament_data, import_id)]
  IN IF truthy(get(filament_data, "spool_weight", NoneNum))
     THEN put(body, "spool_weight", filament_data.spool_weight)
     ELSE body

\* seeded fault: the failure is swallowed and the loop goes on
after_spool_post_swallowed(posted, index) == [i |-> index + 1, returns |-> "none"]

\* lines 402-405 and 407-417: after the POST the loop goes on with the next
\* index, or raise_for_status raises and import_filament returns False
after_spool_post(posted, index) ==
  IF posted THEN [i |-> index + 1, returns |-> "none"]
  ELSE [i |-> index, returns |-> "False"]

\* lines 387-405 and 407-417: one turn of the loop
import_filament_spool ==
  /\ pc = "spool"
  /\ i < filaments[idx].quantity
  /\ LET filament_data == filaments[idx]
         import_id == generate_import_id(args.json_path, filament_data, i)
         body == spool_data(filament_data, filament_id, import_id)
     IN IF is_duplicate(import_id, existing_spools)
        THEN /\ i' = i + 1
             /\ pc' = pc
             /\ idx' = idx
             /\ UNCHANGED <<cat_spools, faults_left, log>>
        ELSE \E posted \in Outcomes :
               LET after == after_spool_post(posted, i)
               IN /\ faults_left' = faults_left - failed(posted)
                  /\ cat_spools' = (IF posted
                                    THEN Append(cat_spools,
                                                put(body, "id", 200 + Len(cat_spools) + 1))
                                    ELSE cat_spools)
                  /\ i' = after.i
                  /\ IF after.returns = "False"
                     THEN /\ log' = log \o Posted("post_spool", i, posted) \o Returned(FALSE)
                          /\ next_record
                     ELSE /\ log' = log \o Posted("post_spool", i, posted)
                          /\ pc' = pc
                          /\ idx' = idx
  /\ UNCHANGED <<cat_vendors, cat_filaments, files, invocation, importer,
                 existing_filaments, filaments, vendor_to_use, vendor_id, filament_id,
                 existing_spools, success_count, result, run, prev_clean, prev_partial>>

\* lines 406 and 642-643: the loop is over, import_filament returns True
import_filament_return ==
  /\ pc = "spool"
  /\ i >= filaments[idx].quantity
  /\ success_count' = success_count + 1
  /\ log' = log \o Returned(TRUE)
  /\ next_record
  /\ UNCHANGED <<catalog, files, invocation, importer, existing_filaments, filaments,
                 vendor_to_use, vendor_id, filament_id, existing_spools, i, result,
                 run, faults_left, prev_clean, prev_partial>>

\* lines 645-646
process_receipt_finish ==
  /\ pc = "record"
  /\ idx > Len(filaments)
  /\ pc' = "done"
  /\ result' = receipt_result(success_count)
  /\ UNCHANGED <<catalog, files, invocation, importer, locals, run, faults_left, log,
                 prev_clean, prev_partial>>

\* ------------------------------------------------------------ next run
is_clean(a_result, a_log) ==
  /\ a_result \in {"True", "False"}
  /\ \A k \in 1..Len(a_log) : a_log[k].ok /\ a_log[k].answer # "s"

\* the invocation returned, the user stopped no record, and the calls that
\* failed were POSTs of /api/v1/spool, at least one
is_partial(a_result, a_log) ==
  /\ a_result \in {"True", "False"}
  /\ \A k \in 1..Len(a_log) :
       /\ a_log[k].answer # "s"
       /\ ~a_log[k].ok => a_log[k].op \in {"post_spool", "return"}
  /\ \E k \in 1..Len(a_log) : a_log[k].op = "post_spool" /\ ~a_log[k].ok

\* main (656-703) once more, with the same arguments and files: a new
\* SpoolmanImporter (lines 21-25) against the catalog as the last run left it
new_invocation ==
  /\ pc \in {"done", "exit"}
  /\ run < MaxRuns
  /\ run' = run + 1
  /\ prev_clean' = is_clean(result, log)
  /\ prev_partial' = is_partial(result, log)
  /\ vendor_data' = vendor_file
  /\ color_data' = color_file
  /\ pc' = "start"
  /\ existing_filaments' = <<>>
  /\ filaments' = <<>>
  /\ idx' = 1
  /\ vendor_to_use' = <<>>
  /\ vendor_id' = NoneNum
  /\ filament_id' = NoneNum
  /\ existing_spools' = <<>>
  /\ i' = 0
  /\ success_count' = 0
  /\ result' = "running"
  /\ log' = <<>>
  /\ UNCHANGED <<catalog, files, invocation>>

run_again ==
  /\ new_invocation
  /\ UNCHANGED faults_left

\* the further invocation meets no failing HTTP call
run_again_reliably ==
  /\ new_invocation
  /\ faults_left' = 0

\* one invocation
Next ==
  \/ process_receipt_start
  \/ resolve_record
  \/ get_or_create_vendor
  \/ import_filament_entry
  \/ import_filament_get_spools
  \/ import_filament_spool
  \/ import_filament_return
  \/ process_receipt_finish

Spec == Init /\ [][Next]_vars

\* up to MaxRuns invocations in a row, every HTTP call succeeding
InitRerun ==
  /\ faults_left = 0
  /\ Start

NextRerun ==
  \/ Next
  \/ run_again

SpecRerun == InitRerun /\ [][NextRerun]_vars

\* an invocation with up to MaxFailures HTTP calls failing, then invocations
\* with every HTTP call succeeding
NextRetry ==
  \/ Next
  \/ run_again_reliably

SpecRetry == Init /\ [][NextRetry]_vars

\* ------------------------------------------------------------ single calls
\* One call of a method of a SpoolmanImporter whose tables were loaded from
\* the files on disk, as tests/test_spoolman_importer.py calls them: args is
\* the call, result what it returned.

\* every text of up to MaxWord letters over the letters of PLA, ABS and ASA
Words == UNION {[1..n -> {"P", "L", "A", "B", "S"}] : n \in 0..MaxWord}

MaterialNames ==
  Words \cup {<<"p","l","a","+">>, <<"P","E","T","G","-","C","F">>, <<"A","b","s">>, <<"a","s","a">>, <<"T","P","U"," ","9","5","A">>, <<"W","o","o","d"," ","P","L","A">>, <<"S","i","l","k">>,
              <<"s","i","l","k"," ","p","e","t","g">>, <<"N","y","l","o","n">>, <<"U","N","K","N","O","W","N">>, <<"W","o","o","d"," ","S","i","l","k">>, <<"t","p","u"," ","a","s","a">>}

\* a table whose only vendor lists a longer key before the key itself, and
\* whose defaults know PETG only
VendorFileC ==
  [vendors |-> << <<<<"T","v">>, << <<<<"P","L","A"," ","B","a","s","i","c">>, XvPLA>>, <<<<"P","L","A">>, TvPLA>> >> >> >>,
   material_defaults |-> << <<<<"P","E","T","G">>, DefPETG>> >>]

\* a table with two vendor names that differ in case only
VendorFileD ==
  [vendors |-> << <<<<"T","V">>, << <<<<"P","E","T","G">>, DefPETG>> >> >>,
                  <<<<"T","v">>, << <<<<"P","L","A"," ","B","a","s","i","c">>, XvPLA>>, <<<<"P","l","a">>, TvPLA>> >> >> >>,
   material_defaults |-> MaterialDefaults]

\* lines 54-56: what load_vendor_data returns when the file is missing
VendorFileNone == [vendors |-> <<>>, material_defaults |-> <<>>]

VendorTables == VendorFiles \cup {VendorFileC, VendorFileD, VendorFileNone}

BrandNames == {<<"T","v">>, <<" ","T","V"," ">>, <<"t","v">>, <<"X","v">>, <<"Q","q">>}

QueryMaterials == {<<"P","L","A">>, <<"p","l","a">>, <<" ","P","l","a"," ">>, <<"P","L","A"," ","B","a","s","i","c">>, <<"P","E","T","G">>, <<"N","y","l","o","n">>, <<"A","B","S">>}

\* the table of tests/test_spoolman_importer.py, lines 66-78
ColorFileT ==
  [colors |-> << <<<<"b","l","u","e">>, <<"#","0","0","0","0","F","F">>>>, <<<<"l","i","g","h","t","-","b","l","u","e">>, <<"#","A","D","D","8","E","6">>>>,
                 <<<<"b","l","a","c","k">>, <<"#","0","0","0","0","0","0">>>>, <<<<"g","a","l","a","x","y","-","b","l","a","c","k">>, <<"#","2","E","2","E","2","E">>>>,
                 <<<<"r","e","d">>, <<"#","F","F","0","0","0","0">>>> >>]

\* lines 36-37: what load_color_data returns when the file is missing
ColorFileNone == [colors |-> <<>>]

ColorTables == ColorFiles \cup {ColorFileT, ColorFileNone}

ColorNames ==
  {<<"R","e","d">>, <<"R","E","D">>, <<"b","L","a","C","k">>, <<"L","i","g","h","t"," ","B","l","u","e">>, <<"l","i","g","h","t"," ","b","l","u","e">>, <<"G","a","l","a","x","y"," ","B","l","a","c","k">>, <<"D","e","e","p"," ","B","l","u","e">>,
   <<"M","a","t","t","e"," ","G","a","l","a","x","y"," ","B","l","a","c","k">>, <<"C","h","a","r","t","r","e","u","s","e">>, <<>>, <<"Z","z">>}

SourceNames == {<<"i","n","/","d",".","j","s","o","n">>, <<"d",".","j","s","o","n">>, <<"e",".","j","s","o","n">>}

Prices == {0, 5, 20}

MarkedRecords ==
  [brand : {<<"T","v">>, <<>>}, material : {<<"P","L","A">>}, color : {<<"R","e","d">>, <<"L","i","g","h","t"," ","B","l","u","e">>},
   price : Prices]

Calls ==
  [fn : {"extract_base_material"}, material : MaterialNames]
  \cup [fn : {"get_color_hex"}, color_name : ColorNames, interactive : BOOLEAN,
        choice : ColorChoices]
  \cup [fn : {"get_vendor_filament_data"}, brand : BrandNames,
        material : QueryMaterials, interactive : BOOLEAN, choice : AttrChoices]
  \cup [fn : {"_generate_import_id"}, source_filename : SourceNames,
        filament_data : MarkedRecords, index : 0..MaxIndex]
  \cup [fn : {"build_comment"}, source_filename : SourceNames,
        filament_data : MarkedRecords, index : 0..MaxIndex]

InitCall ==
  /\ cat_vendors = <<>>
  /\ cat_filaments = <<>>
  /\ cat_spools = <<>>
  /\ json_file = [kind |-> "other", filaments |-> <<>>]
  /\ args \in Calls
  /\ vendor_file \in (IF args.fn = "get_vendor_filament_data" THEN VendorTables
                      ELSE {VendorFileA})
  /\ color_file \in (IF args.fn = "get_color_hex" THEN ColorTables ELSE {ColorFileA})
  /\ vendor_data \in (IF args.fn = "get_vendor_filament_data" THEN VendorTables
                      ELSE {VendorFileA})
  /\ color_data \in (IF args.fn = "get_color_hex" THEN ColorTables ELSE {ColorFileA})
  /\ args.fn = "get_vendor_filament_data" =>
       (~args.interactive \/ valid_attr_choice(vendor_data, args.choice))
  /\ user_vendor = <<>>
  /\ pc = "call"
  /\ existing_filaments = <<>>
  /\ filaments = <<>>
  /\ idx = 1
  /\ vendor_to_use = <<>>
  /\ vendor_id = NoneNum
  /\ filament_id = NoneNum
  /\ existing_spools = <<>>
  /\ i = 0
  /\ success_count = 0
  /\ result = "running"
  /\ run = 1
  /\ faults_left = 0
  /\ log = <<>>
  /\ prev_clean = FALSE
  /\ prev_partial = FALSE

\* what a call leaves alone besides the tables it may reload
untouched == <<catalog, files, invocation, locals, run, faults_left, log, prev_clean, prev_partial>>

\* lines 185-205
call_extract_base_material ==
  /\ pc = "call"
  /\ args.fn = "extract_base_material"
  /\ result' = extract_base_material(args.material)
  /\ pc' = "returned"
  /\ UNCHANGED <<untouched, importer>>

\* lines 442-466; the file on disk is what a reload reads
call_get_color_hex ==
  /\ pc = "call"
  /\ args.fn = "get_color_hex"
  /\ result' = get_color_hex(color_data, args.color_name, args.interactive,
                             args.choice, color_file)
  /\ color_data' = result'.color_data
  /\ pc' = "returned"
  /\ UNCHANGED <<untouched, vendor_data>>

\* lines 61-138; the file on disk is what a reload reads
call_get_vendor_filament_data ==
  /\ pc = "call"
  /\ args.fn = "get_vendor_filament_data"
  /\ result' = get_vendor_filament_data(vendor_data, args.brand, args.material,
                                        args.interactive, args.choice, vendor_file)
  /\ vendor_data' = result'.vendor_data
  /\ pc' = "returned"
  /\ UNCHANGED <<untouched, color_data>>

\* lines 326-329
call_generate_import_id ==
  /\ pc = "call"
  /\ args.fn = "_generate_import_id"
  /\ result' = generate_import_id(args.source_filename, args.filament_data, args.index)
  /\ pc' = "returned"
  /\ UNCHANGED <<untouched, importer>>

\* lines 388 and 398: the comment of the instance of one index of a record
call_build_comment ==
  /\ pc = "call"
  /\ args.fn = "build_comment"
  /\ result' = build_comment(args.filament_data,
                             generate_import_id(args.source_filename,
                                                args.filament_data, args.index))
  /\ pc' = "returned"
  /\ UNCHANGED <<untouched, importer>>

NextCall ==
  \/ call_extract_base_material
  \/ call_get_color_hex
  \/ call_get_vendor_filament_data
  \/ call_generate_import_id
  \/ call_build_comment

SpecCall == InitCall /\ [][NextCall]_vars

\* ================================================================= claims
PostOps == {"post_vendor", "post_filament", "post_spool"}
InputOps == {"input_vendor", "input_attr", "input_color"}

\* the events of this invocation that belong to record r
EventsOf(r) == SelectSeq(log, LAMBDA e : e.rec = r)

\* the instance-creation requests issued for record r, in order
SpoolPosts(r) == SelectSeq(log, LAMBDA e : e.rec = r /\ e.op = "post_spool")

NoPosts(r) == \A k \in 1..Len(log) : log[k].rec = r => log[k].op \notin PostOps

ReturnedTrue == {k \in 1..Len(log) : log[k].op = "return" /\ log[k].ok}

\* import_filament has just returned for record idx - 1
AtReturn == pc = "record" /\ Len(log) > 0 /\ log[Len(log)].op = "return"

Marker(r, j) == generate_import_id(args.json_path, filaments[r], j)

\* the marker of index j of record r is in a comment of the fetched instances
Present(r, j) ==
  \E k \in 1..Len(existing_spools) : Contains(existing_spools[k].comment, Marker(r, j))

Indices(r) == 0..(filaments[r].quantity - 1)

RECURSIVE Ascending(_)
Ascending(S) ==
  IF S = {} THEN <<>>
  ELSE LET m == CHOOSE x \in S : \A y \in S : x <= y
       IN <<m>> \o Ascending(S \ {m})

\* C1: after an invocation that returned with every call succeeding and no
\* record skipped by the stop option, a further invocation with the same
\* arguments and file, in which every call succeeds too, issues no
\* spool-creation request.
C1_Idempotent ==
  (run >= 2 /\ prev_clean) => \A k \in 1..Len(log) : log[k].op # "post_spool"

\* a second invocation has gone through a batch of two records whose
\* instances the first invocation created
C1_Witness ==
  /\ run = 2
  /\ prev_clean
  /\ pc = "done"
  /\ result = "True"
  /\ success_count = 2
  /\ Len(cat_spools) >= 3

\* the ids of the fetched entries of the record's vendor whose name equals
\* "{material} {color}" without regard to case
MatchIds ==
  {existing_filaments[k].id : k \in
     {n \in 1..Len(existing_filaments) :
        /\ existing_filaments[n].vendor.id = vendor_id
        /\ lower(existing_filaments[n].name)
             = lower(filaments[idx].material \o <<" ">> \o filaments[idx].color)}}

\* C2: when the fetched entries hold an entry of the record's vendor id whose
\* name equals "{material} {color}" case-insensitively, import_filament issues
\* no entry-creation request (and no prompt) and goes on to the instances with
\* the id of such an entry.
C2_EntryReuse ==
  [][(pc = "entry" /\ MatchIds # {}) =>
       /\ cat_filaments' = cat_filaments
       /\ log' = log
       /\ pc' = "spools"
       /\ filament_id' \in MatchIds]_vars

\* the record "pla red" goes on with the seeded entry "PLA Red"
C2_Witness ==
  /\ pc = "spools"
  /\ filament_id = 101
  /\ filament_name_of(filaments[idx]) = <<"p","l","a"," ","r","e","d">>
  /\ NoPosts(idx)

\* the entry of record r was found, and every index of r has its marker in a
\* fetched instance comment
FullyPresent(r) ==
  /\ \A k \in 1..Len(log) : log[k].rec = r => log[k].op # "post_filament"
  /\ \A j \in Indices(r) : Present(r, j)

\* C3: for a record whose entry is found and whose every index 0..quantity-1
\* has its marker in a fetched instance comment, no POST is issued,
\* import_filament returns True, the record is counted, and process_receipt
\* returns True.
C3_NothingToDo ==
  /\ (pc = "spool" /\ FullyPresent(idx)) => NoPosts(idx)
  /\ (AtReturn /\ FullyPresent(idx - 1)) => (NoPosts(idx - 1) /\ log[Len(log)].ok)
  /\ success_count = Cardinality(ReturnedTrue)
  /\ (pc = "done" /\ ReturnedTrue # {}) => result = "True"

\* the test's scenario: the whole invocation issued no POST and no prompt,
\* and returned True
C3_Witness ==
  /\ pc = "done"
  /\ result = "True"
  /\ ~args.dry_run
  /\ Len(log) = 1
  /\ log[1].op = "return"
  /\ log[1].ok

\* C4: while every write succeeds, the instance-creation requests issued for
\* the record are those of the indices below i whose marker is in no fetched
\* instance comment, in ascending order, and the instance each one created
\* belongs to the entry and has the marker of its index in its comment.
C4_MissingCreated ==
  pc = "spool" =>
    LET posts == SpoolPosts(idx)
        created(k) == cat_spools[Len(cat_spools) - Len(posts) + k]
    IN /\ [k \in 1..Len(posts) |-> posts[k].index]
            = Ascending({j \in Indices(idx) : j < i /\ ~Present(idx, j)})
       /\ \A k \in 1..Len(posts) :
            /\ posts[k].ok
            /\ created(k).filament_id = filament_id
            /\ Contains(created(k).comment, Marker(idx, posts[k].index))

\* the loop is over: some index was skipped and some index was created
C4_Witness ==
  /\ pc = "spool"
  /\ i = filaments[idx].quantity
  /\ \E j \in Indices(idx) : Present(idx, j)
  /\ Len(SpoolPosts(idx)) > 0

\* C5: in dry-run mode process_receipt issues no POST and calls input() never.
C5_DryRun ==
  args.dry_run => \A k \in 1..Len(log) : log[k].op \notin (PostOps \cup InputOps)

\* a dry run over a batch that holds records has returned
C5_Witness ==
  /\ args.dry_run
  /\ pc = "done"
  /\ result = "True"
  /\ Len(filaments) = MaxRecords

\* import_filament has just returned from the loop over the indices
AtLoopReturn ==
  /\ AtReturn
  /\ \/ log[Len(log)].ok
     \/ (Len(log) > 1 /\ log[Len(log) - 1].op = "post_spool")

FailedSpoolPosts == {k \in 1..Len(log) : log[k].op = "post_spool" /\ ~log[k].ok}

\* C6 as claimed: when import_filament returns from the loop, every index
\* whose marker is in no fetched instance comment has been attempted, also
\* after a failed request at an earlier index.
C6_FailureDoesNotBlock ==
  AtLoopReturn =>
    \A j \in Indices(idx - 1) :
      ~Present(idx - 1, j) =>
         \E k \in 1..Len(SpoolPosts(idx - 1)) : SpoolPosts(idx - 1)[k].index = j

\* C6 as amended: a failed instance-creation request ends the record's
\* reconciliation: import_filament returns False at once, and nothing more is
\* requested for that record.
C6_FailureEndsRecord ==
  \A k \in FailedSpoolPosts :
    /\ k < Len(log)
    /\ log[k + 1].op = "return"
    /\ ~log[k + 1].ok
    /\ log[k + 1].rec = log[k].rec
    /\ \A m \in (k + 2)..Len(log) : log[m].rec # log[k].rec

\* the request for index 0 of a record of two or more instances failed, and
\* the invocation has returned
C6_Witness ==
  /\ pc = "done"
  /\ \E k \in FailedSpoolPosts :
       /\ log[k].index = 0
       /\ filaments[log[k].rec].quantity >= 2
       /\ Len(SpoolPosts(log[k].rec)) = 1

Stops == {k \in 1..Len(log) : log[k].op = "input_attr" /\ log[k].answer = "s"}

\* C7 as claimed: once the stop option is chosen at the attribute prompt of a
\* record, no later record is resolved, prompted for or written, and
\* process_receipt returns False.
C7_StopHaltsBatch ==
  \A k \in Stops :
    /\ \A m \in 1..Len(log) : log[m].rec <= log[k].rec
    /\ ~(idx > log[k].rec /\ pc \in {"vendor", "entry", "spools", "spool"})
    /\ (pc = "done" => result = "False")

FailedCreations ==
  {k \in 1..Len(log) : log[k].op \in {"post_vendor", "post_filament"} /\ ~log[k].ok}

\* process_receipt went through its loop and returned
LoopDone == pc = "done" /\ filaments # <<>> /\ ~args.dry_run

\* C8: when the vendor or the entry of a record cannot be created, no
\* instance-creation request is issued for the record, the record is not
\* counted, the loop goes on with the next record, and every later record has
\* been taken up when process_receipt returns.
C8_CreationFailureSkipsRecord ==
  /\ success_count = Cardinality(ReturnedTrue)
  /\ \A k \in FailedCreations :
       /\ SpoolPosts(log[k].rec) = <<>>
       /\ \A m \in ReturnedTrue : log[m].rec # log[k].rec
       /\ idx > log[k].rec
       /\ \A m \in (k + 1)..Len(log) :
            log[m].rec = log[k].rec => (log[m].op = "return" /\ ~log[m].ok)
       /\ LoopDone =>
            \A r \in (log[k].rec + 1)..Len(filaments) : EventsOf(r) # <<>>

\* the entry of the first record could not be created, and the second record
\* was imported
C8_Witness ==
  /\ pc = "done"
  /\ \E k \in FailedCreations : log[k].op = "post_filament" /\ log[k].rec = 1
  /\ \E m \in ReturnedTrue : log[m].rec = 2

\* float() and int() accept every number the object gives
WellFormed(item) ==
  /\ item.is_dict
  /\ \A key \in {"diameter", "weight", "price", "quantity", "spool_weight"} :
       key \in DOMAIN item.d => item.d[key] # BadNum

\* C9 as claimed: load_filaments_from_json returns one record for every
\* well-formed object of the file, whatever the other items of the file are.
C9_MalformedIsolated ==
  (pc # "start" /\ json_file.kind = "list") =>
     Len(filaments) = Len(SelectSeq(json_file.filaments, WellFormed))

\* record r was taken up, its vendor and its entry were resolved and none of
\* its writes failed
FullySucceeded(r) ==
  \A k \in 1..Len(log) :
    log[k].rec = r =>
      /\ log[k].op \in PostOps => log[k].ok
      /\ ~(log[k].op = "input_attr" /\ log[k].answer = "s")

\* C10: when the loop has taken up every record, process_receipt returns True
\* exactly if some record fully succeeded, success_count is the number of
\* such records, and a record with a failed instance write is never counted.
C10_SuccessIffSomeRecord ==
  /\ LoopDone =>
       /\ result = "True" <=> \E r \in 1..Len(filaments) : FullySucceeded(r)
       /\ success_count = Cardinality({r \in 1..Len(filaments) : FullySucceeded(r)})
  /\ \A k \in FailedSpoolPosts : \A m \in ReturnedTrue : log[m].rec # log[k].rec

\* one record lost an instance write, the other was imported, and
\* process_receipt returned True
C10_Witness ==
  /\ LoopDone
  /\ result = "True"
  /\ success_count = 1
  /\ FailedSpoolPosts # {}

\* a call of fn has returned
Returns(fn) == pc = "returned" /\ args.fn = fn

BaseCategories == <<<<"P","L","A">>, <<"P","E","T","G">>, <<"A","B","S">>, <<"A","S","A">>, <<"T","P","U">>, <<"W","O","O","D">>, <<"S","I","L","K">>>>

\* C11: extract_base_material returns the first category, in the order PLA,
\* PETG, ABS, ASA, TPU, WOOD, SILK, whose name is a substring of the
\* upper-cased material, and PLA when none is.
C11_FirstCategory ==
  Returns("extract_base_material") =>
    LET hits == {k \in 1..Len(BaseCategories) :
                   Contains(upper(args.material), BaseCategories[k])}
    IN result = IF hits = {} THEN <<"P","L","A">>
                ELSE BaseCategories[CHOOSE k \in hits : \A j \in hits : k <= j]

\* a material that contains both ABS and PLA was classified as PLA
C11_Witness ==
  /\ Returns("extract_base_material")
  /\ Contains(upper(args.material), <<"A","B","S">>)
  /\ Contains(upper(args.material), <<"P","L","A">>)
  /\ result = <<"P","L","A">>

\* the table keys that are substrings of the normalized colour name
SubstringKeys(colors, name) == {k \in 1..Len(colors) : Contains(name, colors[k][1])}

\* C12: without interaction get_color_hex lower-cases the name and puts
\* hyphens for spaces, then returns the value of that key if the table has
\* it, else the value of a longest key contained in it, else None; it never
\* prompts, and names that differ in letter case only get the same answer.
C12_ColorLookup ==
  (Returns("get_color_hex") /\ ~args.interactive) =>
    LET colors == color_data.colors
        name == replace_space(lower(args.color_name))
        subs == SubstringKeys(colors, name)
        longest == {k \in subs : \A j \in subs : Len(colors[j][1]) <= Len(colors[k][1])}
    IN /\ result.prompts = 0
       /\ ~result.exit
       /\ IF has_key(colors, name) THEN result.hex = lookup(colors, name)
          ELSE IF subs # {} THEN result.hex \in {colors[k][2] : k \in longest}
          ELSE result.hex = <<>>
       /\ \A other \in ColorNames :
            lower(other) = lower(args.color_name) =>
              get_color_hex(color_data, other, FALSE, args.choice, color_file).hex
                = result.hex

\* the name is no key, a shorter key contained in it stands earlier in the
\* table than a longer one, and the longer key's value was returned
C12_Witness ==
  /\ Returns("get_color_hex")
  /\ ~args.interactive
  /\ LET colors == color_data.colors
         name == replace_space(lower(args.color_name))
         subs == SubstringKeys(colors, name)
     IN /\ ~has_key(colors, name)
        /\ \E k \in subs, j \in subs :
             /\ j < k
             /\ Len(colors[j][1]) < Len(colors[k][1])
             /\ result.hex = colors[k][2]
             /\ result.hex # colors[j][2]

\* C13: the marker is determined by the source file name, the record's
\* brand, material, colour and price, and the index: another price gives
\* another marker, and another index gives a marker that is the same up to
\* and including "|index:" and differs after it.
C13_MarkerFunction ==
  Returns("_generate_import_id") =>
    LET with_price(p) == generate_import_id(args.source_filename,
                                            [args.filament_data EXCEPT !.price = p],
                                            args.index)
        with_index(j) == generate_import_id(args.source_filename, args.filament_data, j)
        stem == Len(result) - Len(str_int(args.index))
        tag == <<"|","i","n","d","e","x",":">>
    IN /\ result = with_index(args.index)
       /\ \A p \in Prices \ {args.filament_data.price} : with_price(p) # result
       /\ stem >= Len(tag)
       /\ SubSeq(result, stem - Len(tag) + 1, stem) = tag
       /\ SubSeq(result, stem + 1, Len(result)) = str_int(args.index)
       /\ \A j \in (0..MaxIndex) \ {args.index} :
            /\ SubSeq(with_index(j), 1, stem) = SubSeq(result, 1, stem)
            /\ SubSeq(with_index(j), stem + 1, Len(with_index(j))) = str_int(j)
            /\ str_int(j) # str_int(args.index)

\* the marker of index 10 of a priced record was computed
C13_Witness ==
  /\ Returns("_generate_import_id")
  /\ args.index = 10
  /\ args.filament_data.price = 20
  /\ result = <<"i","m","p","o","r","t","e","d","_","f","r","o","m",":","d",".","j","s","o","n","|","i","t","e","m",":","T","v","-","P","L","A","-","R","e","d","-","2","0",".","0","|","i","n","d","e","x",":","1","0">>

AttributeKeys == {"density", "spool_weight", "extruder_temp", "bed_temp"}

\* C14 as claimed: every attribute set get_vendor_filament_data returns has
\* a concrete density, spool weight, extruder temperature and bed temperature,
\* whatever the tables hold.
C14_AttributesComplete ==
  (Returns("get_vendor_filament_data") /\ ~result.stop) =>
    \A key \in AttributeKeys :
      key \in DOMAIN result.data /\ result.data[key] # NoneNum

\* the object of the input file that record r was read from
RawOf(r) == SelectSeq(json_file.filaments, LAMBDA item : item.is_dict)[r].d

\* the input names a brand for record r
BrandGiven(r) == "brand" \in DOMAIN RawOf(r) /\ RawOf(r).brand # <<>>

\* C15 as claimed: the vendor of a record is the brand its input object
\* names; when the object names none, the fallback vendor name if one was
\* passed; the user is asked only when there is neither.
C15_VendorResolution ==
  pc = "vendor" =>
    /\ vendor_to_use = IF BrandGiven(idx) THEN RawOf(idx).brand
                       ELSE IF args.vendor_name # <<>> THEN args.vendor_name
                       ELSE user_vendor
    /\ (\E k \in 1..Len(log) : log[k].rec = idx /\ log[k].op = "input_vendor")
         <=> (~BrandGiven(idx) /\ args.vendor_name = <<>>)

ColorStops == {k \in 1..Len(log) : log[k].op = "input_color" /\ log[k].answer = "s"}

\* C16: the stop option of the colour prompt ends the process at once with
\* sys.exit(1): nothing is requested or asked after it, no entry and no
\* instance is created for the record it was chosen for, and the record is
\* not counted.
C16_ColorStopExits ==
  \A k \in ColorStops :
    /\ k = Len(log)
    /\ pc = "exit"
    /\ result = "exit"
    /\ idx = log[k].rec
    /\ \A m \in 1..Len(log) :
         log[m].rec = log[k].rec => log[m].op \notin {"post_filament", "post_spool", "return"}
    /\ success_count = Cardinality(ReturnedTrue)

\* the stop option was chosen at the colour prompt of the first of two records
C16_Witness ==
  /\ ColorStops # {}
  /\ pc = "exit"
  /\ idx = 1
  /\ Len(filaments) = 2

\* the call answered from a vendor record: of the table as loaded, or of the
\* table the r option loaded
FromVendorRecord ==
  /\ Returns("get_vendor_filament_data")
  /\ ~result.stop
  /\ (result.prompts = 0 \/ result.reloads = 1)
  /\ DOMAIN vendor_specific(vendor_data, args.brand, args.material) # {}

\* the defaults of the base category of the call's material, empty when the
\* table has none
CategoryDefaults ==
  LET material_defaults == vendor_data.material_defaults
      base == extract_base_material(strip(upper(args.material)))
  IN IF has_key(material_defaults, base) THEN lookup(material_defaults, base) ELSE <<>>

\* C17: when a vendor record is found, the returned attributes keep every
\* value of the vendor record, and the defaults of the base category are
\* added for the keys the vendor record lacks and for no others.
C17_VendorDataKept ==
  FromVendorRecord =>
    LET v == vendor_specific(vendor_data, args.brand, args.material)
    IN /\ DOMAIN result.data = (DOMAIN v) \cup (DOMAIN CategoryDefaults)
       /\ \A key \in DOMAIN v : result.data[key] = v[key]
       /\ \A key \in (DOMAIN CategoryDefaults) \ (DOMAIN v) :
            result.data[key] = CategoryDefaults[key]

\* a vendor record without density, whose spool weight differs from the
\* default, was completed with the default density
C17_Witness ==
  /\ FromVendorRecord
  /\ LET v == vendor_specific(vendor_data, args.brand, args.material)
     IN /\ "density" \notin DOMAIN v
        /\ "density" \in DOMAIN CategoryDefaults
        /\ v.spool_weight # CategoryDefaults.spool_weight
        /\ result.data.spool_weight = v.spool_weight
        /\ result.data.density = CategoryDefaults.density

\* the attribute sets listed, under a vendor name equal to the call's brand
\* but for case, for a material key equal to the call's material but for case
EqualKeyRecords ==
  LET vendors == vendor_data.vendors
  IN {vendors[b][2][e][2] :
        <<b, e>> \in {<<b, e>> \in (1..Len(vendors)) \X (1..3) :
                        /\ lower(vendors[b][1]) = lower(strip(args.brand))
                        /\ e <= Len(vendors[b][2])
                        /\ lower(vendors[b][2][e][1]) = lower(strip(args.material))}}

\* vendor names of the table that equal the call's brand but for case
BrandMatches ==
  {b \in 1..Len(vendor_data.vendors) :
     lower(vendor_data.vendors[b][1]) = lower(strip(args.brand))}

\* C18 as claimed: under a brand matched without regard to case, a material
\* key that equals the query without regard to case is used, also when a key
\* that merely contains the query stands earlier in the table (the table
\* being the one the answer was taken from: as loaded, or as reloaded).
C18_ExactBeforePartial ==
  (Returns("get_vendor_filament_data") /\ EqualKeyRecords # {}) =>
    /\ (result.prompts = 0 \/ result.reloads = 1)
    /\ \E record \in EqualKeyRecords :
         \A key \in DOMAIN record : result.data[key] = record[key]

\* a call without interaction for which the table has no vendor record
NoRecordNoPrompt ==
  /\ Returns("get_vendor_filament_data")
  /\ ~args.interactive
  /\ DOMAIN vendor_specific(vendor_data, args.brand, args.material) = {}

\* C19: without interaction get_vendor_filament_data never prompts, never
\* reloads and never returns the stop signal; when no vendor record matches it
\* returns the defaults of the material's base category if the table has
\* them, and else density 1.24, spool weight 250, extruder 220, bed 60.
C19_NonInteractiveDefaults ==
  /\ (Returns("get_vendor_filament_data") /\ ~args.interactive) =>
       (result.prompts = 0 /\ result.reloads = 0 /\ ~result.stop)
  /\ NoRecordNoPrompt =>
       IF DOMAIN CategoryDefaults # {}
       THEN result.data = CategoryDefaults
       ELSE /\ result.data.density = 124
            /\ result.data.spool_weight = 250
            /\ result.data.extruder_temp = 220
            /\ result.data.bed_temp = 60
            /\ DOMAIN result.data = AttributeKeys \cup {"description"}

\* no vendor record and no defaults for the base category: the fixed
\* constants were returned
C19_Witness ==
  /\ NoRecordNoPrompt
  /\ vendor_data = VendorFileC
  /\ DOMAIN CategoryDefaults = {}
  /\ result.data.spool_weight = 250
  /\ result.data.extruder_temp = 220

\* C20: a lookup shows at most one prompt and reloads its table at most
\* once; after the r option the table is the file on disk, the answer is the
\* one a call without interaction gives on that table, and it is never the
\* stop signal or the exit, whatever the reloaded table holds.
C20_ReloadBounded ==
  /\ Returns("get_vendor_filament_data") =>
       /\ result.prompts <= 1
       /\ result.reloads <= 1
       /\ (args.interactive /\ args.choice = "r") =>
            (result.prompts = 0 \/ result.reloads = 1)
       /\ result.reloads = 1 =>
            LET again == get_vendor_filament_data(vendor_file, args.brand, args.material,
                                                  FALSE, args.choice, vendor_file)
            IN /\ result.prompts = 1
               /\ ~result.stop
               /\ vendor_data = vendor_file
               /\ again.prompts = 0
               /\ result.data = again.data
  /\ Returns("get_color_hex") =>
       /\ result.prompts <= 1
       /\ result.reloads <= 1
       /\ (args.interactive /\ args.choice = "r") =>
            (result.prompts = 0 \/ result.reloads = 1)
       /\ result.reloads = 1 =>
            LET again == get_color_hex(color_file, args.color_name, FALSE, args.choice,
                                       color_file)
            IN /\ result.prompts = 1
               /\ ~result.exit
               /\ color_data = color_file
               /\ again.prompts = 0
               /\ result.hex = again.hex

\* the r option was chosen and the reloaded table has no record for the pair
\* either: the call returned defaults after its one prompt
C20_Witness ==
  /\ Returns("get_vendor_filament_data")
  /\ result.reloads = 1
  /\ result.prompts = 1
  /\ DOMAIN vendor_specific(vendor_file, args.brand, args.material) = {}
  /\ ~result.stop
  /\ DOMAIN result.data # {}

\* the entries of the remote catalog created by this invocation
CreatedEntries ==
  LET n == Cardinality({k \in 1..Len(log) : log[k].op = "post_filament" /\ log[k].ok})
  IN (Len(cat_filaments) - n + 1)..Len(cat_filaments)

SameKey(e, f) == e.vendor.id = f.vendor.id /\ lower(e.name) = lower(f.name)

\* C21: an entry created for one record is in the in-memory list before the
\* next record is processed: no two entries created in one invocation have the
\* same vendor id and case-insensitively equal names, and a record whose
\* vendor id and "{material} {color}" name match an entry created earlier in
\* the invocation uses that entry.
C21_InBatchCache ==
  /\ \A a \in CreatedEntries : \A b \in CreatedEntries :
       (a < b) => ~SameKey(cat_filaments[a], cat_filaments[b])
  /\ \A a \in CreatedEntries : \E k \in 1..Len(existing_filaments) :
       existing_filaments[k] = cat_filaments[a]
  /\ pc \in {"spools", "spool"} =>
       \A a \in CreatedEntries :
         (/\ cat_filaments[a].vendor.id = vendor_id
          /\ lower(cat_filaments[a].name) = lower(filament_name_of(filaments[idx])))
           => filament_id = cat_filaments[a].id

\* the second record is at its instances with the entry the first record
\* created, and no second entry was created
C21_Witness ==
  /\ pc = "spool"
  /\ idx = 2
  /\ CreatedEntries # {}
  /\ Cardinality({k \in 1..Len(log) : log[k].op = "post_filament"}) = 1
  /\ log[CHOOSE k \in 1..Len(log) : log[k].op = "post_filament"].rec = 1
  /\ \E a \in CreatedEntries : filament_id = cat_filaments[a].id

\* the instances of the remote catalog whose comment holds the marker of
\* index j of record r
Carriers(r, j) ==
  {k \in 1..Len(cat_spools) : Contains(cat_spools[k].comment, Marker(r, j))}

NoStop == \A k \in 1..Len(log) : log[k].answer # "s"

\* C22: when an invocation ended with instance writes as its only failed
\* calls, and a further invocation with the same arguments and file, in which
\* every call succeeds and the user stops no record, has returned, every
\* index 0..quantity-1 of every record has exactly one instance whose comment
\* holds its marker.
C22_RerunCompletes ==
  (run = 2 /\ prev_partial /\ pc = "done" /\ NoStop) =>
    \A r \in 1..Len(filaments) : \A j \in Indices(r) :
      Cardinality(Carriers(r, j)) = 1

\* the further invocation has returned after creating an instance that the
\* failed write of the invocation before had left missing
C22_Witness ==
  /\ run = 2
  /\ prev_partial
  /\ pc = "done"
  /\ NoStop
  /\ filaments # <<>>
  /\ \E k \in 1..Len(log) : log[k].op = "post_spool" /\ log[k].ok /\ log[k].index = 1

\* C23 as claimed: the comment written for index j of a record is taken for
\* an instance of index i of the same record and source name only if i = j.
C23_ExactPerIndex ==
  Returns("build_comment") =>
    \A n \in 0..MaxIndex :
      is_duplicate(generate_import_id(args.source_filename, args.filament_data, n),
                   << [comment |-> result] >>)
        => n = args.index

\* the step issues an instance-creation request
PostsSpool ==
  /\ pc = "spool"
  /\ Len(log') > Len(log)
  /\ log'[Len(log) + 1].op = "post_spool"

\* C24 as claimed: no instance-creation request is issued with a marker that
\* the comment of an instance of that entry in the remote catalog contains,
\* whether or not the reads of the invocation succeed.
C24_NeverDuplicates ==
  [][PostsSpool =>
       ~is_duplicate(generate_import_id(args.json_path, filaments[idx], i),
                     spools_of(filament_id))]_vars

RECURSIVE SumQuantities(_)
SumQuantities(n) == IF n = 0 THEN 0 ELSE filaments[n].quantity + SumQuantities(n - 1)

CreatedSpools == {k \in 1..Len(log) : log[k].op = "post_spool" /\ log[k].ok}

\* the invocation has returned, no call failed, the user stopped no record,
\* and the catalog held no instance when it began
CleanOnNoInstances ==
  /\ LoopDone
  /\ \A k \in 1..Len(log) : log[k].ok /\ log[k].answer # "s"
  /\ Len(cat_spools) = Cardinality(CreatedSpools)

\* C25 as claimed: against a catalog without instances, every call
\* succeeding, the invocation creates as many instances as the quantities of
\* the records of the batch add up to, also when two records agree on brand,
\* material, color and price.
C25_CreatedIsSumOfQuantities ==
  CleanOnNoInstances => Cardinality(CreatedSpools) = SumQuantities(Len(filaments))

\* the input object of record r gives a spool weight
SpoolWeightGiven(r) == truthy(get(RawOf(r), "spool_weight", NoneNum))

\* C26 as claimed: the instance-creation request of a record whose input
\* object gives a spool weight carries that spool weight, whatever spool
\* weight the reference data hold for the record's vendor and material.
C26_SpoolWeightKept ==
  (pc = "spool" /\ i < filaments[idx].quantity /\ SpoolWeightGiven(idx)) =>
    LET body == spool_data(filaments[idx], filament_id, Marker(idx, i))
    IN /\ "spool_weight" \in DOMAIN body
       /\ body.spool_weight = RawOf(idx).spool_weight

\* the answers the user gives in this step
NewAnswers == {log'[k].answer : k \in (Len(log) + 1)..Len(log')}

\* C27: a step of the invocation in which the user does not choose reload
\* leaves self.vendor_data (vendor table and material defaults) and
\* self.color_data as they were, also when a numbered default is chosen and
\* a description is set on the result, and when defaults fill the missing
\* keys of a vendor record.
C27_TablesUnchanged ==
  [][("r" \notin NewAnswers) =>
       (vendor_data' = vendor_data /\ color_data' = color_data)]_vars

\* a record took a numbered default, its description is set, and the tables
\* are those loaded from the files
C27_Witness ==
  /\ pc = "vendor"
  /\ \E k \in 1..Len(log) :
       log[k].op = "input_attr" /\ log[k].rec = idx /\ log[k].answer \in {"1", "2"}
  /\ "description" \in DOMAIN filaments[idx]
  /\ \A k \in 1..Len(log) : log[k].answer # "r"
  /\ vendor_data = VendorFileA
  /\ color_data = ColorFileA

====
